---- MODULE Spec2Model ----
(***************************************************************************)
(* A model of the recursive path tracer of rust-raytracer (src/main.rs,    *)
(* src/maths/vec3.rs, src/maths/utils.rs, src/netpbm/mod.rs).              *)
(*                                                                         *)
(* Floating-point numbers are modelled as fixed-point integers: the        *)
(* integer k stands for the number k / One.  Products, quotients and       *)
(* square roots round toward zero to that grid, the way the machine        *)
(* rounds to its own.  The three special values of the floating-point      *)
(* format that the program can produce (+infinity, -infinity and           *)
(* not-a-number) are three integers outside the range of the grid.         *)
(***************************************************************************)
EXTENDS Integers, Sequences, FiniteSets, TLC

(***************************************************************************)
(* f64 / f32 scalars                                                       *)
(***************************************************************************)
\* the number 1.0; one grid step is 0.0001
One == 10000

PInf == 2000000000
NInf == -2000000000
NaN == -2100000000

IsNaN(x) == x = NaN
IsInf(x) == x = PInf \/ x = NInf
IsFinite(x) == x > NInf /\ x < PInf

Abs(x) == IF x < 0 THEN -x ELSE x
Sgn(x) == IF x < 0 THEN -1 ELSE IF x > 0 THEN 1 ELSE 0

\* comparisons: every comparison with not-a-number is false
FLt(x, y) == x # NaN /\ y # NaN /\ x < y
FGt(x, y) == x # NaN /\ y # NaN /\ x > y
FLe(x, y) == x # NaN /\ y # NaN /\ x <= y
FGe(x, y) == x # NaN /\ y # NaN /\ x >= y

FNeg(x) == IF x = NaN THEN NaN ELSE -x

FAdd(x, y) ==
    IF x = NaN \/ y = NaN THEN NaN
    ELSE IF IsInf(x) THEN (IF IsInf(y) /\ y # x THEN NaN ELSE x)
    ELSE IF IsInf(y) THEN y
    ELSE x + y

FSub(x, y) == FAdd(x, FNeg(y))

\* |x| * |y| / One, rounded down, without an intermediate product above 2^31
MulMag(a, b) ==
    LET ah == a \div One
        al == a % One
        bh == b \div One
        bl == b % One
    IN  ah * bh * One + ah * bl + al * bh + ((al * bl) \div One)

FMul(x, y) ==
    IF x = NaN \/ y = NaN THEN NaN
    ELSE IF IsInf(x) \/ IsInf(y)
         THEN (IF x = 0 \/ y = 0 THEN NaN
               ELSE IF Sgn(x) * Sgn(y) > 0 THEN PInf ELSE NInf)
    ELSE Sgn(x) * Sgn(y) * MulMag(Abs(x), Abs(y))

\* |x| / |y| * One, rounded down, by long division, two decimal places at a time
DivMag(a, b) ==
    LET r1 == (a % b) * 100
        r2 == (r1 % b) * 100
    IN  (a \div b) * One + (r1 \div b) * 100 + (r2 \div b)

FDiv(x, y) ==
    IF x = NaN \/ y = NaN THEN NaN
    ELSE IF IsInf(x) THEN (IF IsInf(y) THEN NaN
                           ELSE IF Sgn(x) * (IF y < 0 THEN -1 ELSE 1) > 0
                                THEN PInf ELSE NInf)
    ELSE IF IsInf(y) THEN 0
    ELSE IF y = 0 THEN (IF x = 0 THEN NaN ELSE IF x > 0 THEN PInf ELSE NInf)
    ELSE Sgn(x) * Sgn(y) * DivMag(Abs(x), Abs(y))

RECURSIVE ISqrtIter(_, _)
ISqrtIter(n, x) ==
    LET y == (x + (n \div x)) \div 2
    IN  IF y >= x THEN x ELSE ISqrtIter(n, y)

\* the integer square root of n >= 0 (Newton's iteration)
ISqrt(n) == IF n = 0 THEN 0 ELSE ISqrtIter(n, n)

\* f64::sqrt: not-a-number below zero
FSqrt(x) ==
    IF x = NaN \/ x < 0 THEN NaN
    ELSE IF x = PInf THEN PInf
    ELSE IF x < 20 * One THEN ISqrt(x * One)
    ELSE IF x < 2000 * One THEN ISqrt(x * 100) * 10
    ELSE ISqrt(x) * 100

\* f64::min: the other operand when one is not-a-number
FMin(x, y) ==
    IF x = NaN THEN y ELSE IF y = NaN THEN x ELSE IF x < y THEN x ELSE y

(***************************************************************************)
(* Vec3 (src/maths/vec3.rs)                                                *)
(***************************************************************************)
Vec3_new(x, y, z) == [x |-> x, y |-> y, z |-> z]

add(u, v) == Vec3_new(FAdd(u.x, v.x), FAdd(u.y, v.y), FAdd(u.z, v.z))

sub(u, v) == Vec3_new(FSub(u.x, v.x), FSub(u.y, v.y), FSub(u.z, v.z))

neg(u) == Vec3_new(FNeg(u.x), FNeg(u.y), FNeg(u.z))

length_squared(u) ==
    FAdd(FAdd(FMul(u.x, u.x), FMul(u.y, u.y)), FMul(u.z, u.z))

length(u) == FSqrt(length_squared(u))

mult(u, v) == Vec3_new(FMul(u.x, v.x), FMul(u.y, v.y), FMul(u.z, v.z))

mult_float(u, t) == Vec3_new(FMul(u.x, t), FMul(u.y, t), FMul(u.z, t))

div(u, t) == mult_float(u, FDiv(One, t))

dot(u, v) == FAdd(FAdd(FMul(u.x, v.x), FMul(u.y, v.y)), FMul(u.z, v.z))

cross(u, v) ==
    Vec3_new(FSub(FMul(u.y, v.z), FMul(u.z, v.y)),
             FSub(FMul(u.z, v.x), FMul(u.x, v.z)),
             FSub(FMul(u.x, v.y), FMul(u.y, v.x)))

unit(u) == div(u, length(u))

Zero3 == Vec3_new(0, 0, 0)
HasNaN(u) == u.x = NaN \/ u.y = NaN \/ u.z = NaN

(***************************************************************************)
(* Random draws (src/maths/utils.rs).  The thread-local generator yields   *)
(* one stream of raw values; a raw value r stands for the uniform draw     *)
(* r / Cardinality(RawDraws) of [0, 1).                                    *)
(***************************************************************************)
RawDraws == 0 .. 3

\* std::f32::consts::PI
Pi == 31415

random_01(raw) == (raw * One) \div Cardinality(RawDraws)

random_between(min, max, raw) == FAdd(min, FMul(FSub(max, min), random_01(raw)))

\* the quarter turn nearest to the angle a in [0, 2 Pi)
Quadrant(a) == (((2 * a) + (Pi \div 2)) \div Pi) % 4

\* f32::cos and f32::sin at the angles the generator can draw
FCos(a) == LET q == Quadrant(a) IN IF q = 0 THEN One ELSE IF q = 2 THEN -One ELSE 0
FSin(a) == LET q == Quadrant(a) IN IF q = 1 THEN One ELSE IF q = 3 THEN -One ELSE 0

random_in_unit_sphere(raw1, raw2) ==
    LET a == random_between(0, 2 * Pi, raw1)
        z == random_between(-One, One, raw2)
        r == FSqrt(FSub(One, FMul(z, z)))
    IN  Vec3_new(FMul(r, FCos(a)), FMul(r, FSin(a)), z)

random_in_hemisphere(normal, raw1, raw2) ==
    LET in_unit_sphere == random_in_unit_sphere(raw1, raw2)
    IN  IF FGt(dot(in_unit_sphere, normal), 0) THEN in_unit_sphere
        ELSE neg(in_unit_sphere)

(***************************************************************************)
(* Rays, materials, hit records, spheres (src/main.rs)                     *)
(***************************************************************************)
reflect(v, n) == sub(v, mult_float(mult_float(n, dot(v, n)), 2 * One))

refract(uv, n, etai_over_etat) ==
    LET cos_theta == dot(neg(uv), n)
        r_out_parallel == mult_float(add(uv, mult_float(n, cos_theta)), etai_over_etat)
        r_out_perp == mult_float(n, FNeg(FSqrt(FSub(One, length_squared(r_out_parallel)))))
    IN  add(r_out_parallel, r_out_perp)

\* x.powf(5.0)
Pow5(x) == FMul(FMul(FMul(FMul(x, x), x), x), x)

schlick(cosine, ref_idx) ==
    LET r0 == FDiv(FSub(One, ref_idx), FAdd(One, ref_idx))
        r0sq == FMul(r0, r0)
    IN  FAdd(r0sq, FMul(FSub(One, r0sq), Pow5(FSub(One, cosine))))

Ray_new(origin, dir) == [origin |-> origin, dir |-> dir]

at(ray, t) == add(ray.origin, mult_float(ray.dir, t))

Lambertian(albedo) ==
    [kind |-> "Lambertian", albedo |-> albedo, fuzziness |-> 0, refractive_index |-> 0]
Metal(albedo, fuzziness) ==
    [kind |-> "Metal", albedo |-> albedo, fuzziness |-> fuzziness, refractive_index |-> 0]
Dialectric(refractive_index) ==
    [kind |-> "Dialectric", albedo |-> Zero3, fuzziness |-> 0,
     refractive_index |-> refractive_index]

\* HitRecord::new without the flip
HitRecord_new_noflip(position, normal, t, front_face, material) ==
    [position |-> position, normal |-> unit(normal), t |-> t,
     front_face |-> front_face, material |-> material]

HitRecord_new(position, normal, t, front_face, material) ==
    LET flipped == IF front_face THEN normal ELSE neg(normal)
    IN  [position |-> position, normal |-> unit(flipped), t |-> t,
         front_face |-> front_face, material |-> material]

Sphere_new(position, radius, material) ==
    [position |-> position, radius |-> radius, material |-> material]

None == [some |-> FALSE]
Some(v) == [some |-> TRUE, val |-> v]

\* the discriminant b*b - 4*a*c of the ray/sphere quadratic
Sphere_discriminant(self, ray) ==
    LET oc == sub(ray.origin, self.position)
        a == dot(ray.dir, ray.dir)
        b == FMul(2 * One, dot(oc, ray.dir))
        c == FSub(dot(oc, oc), FMul(self.radius, self.radius))
    IN  FSub(FMul(b, b), FMul(FMul(4 * One, a), c))

\* the two roots <<t1, t2>> of the quadratic
Sphere_roots(self, ray) ==
    LET oc == sub(ray.origin, self.position)
        a == dot(ray.dir, ray.dir)
        b == FMul(2 * One, dot(oc, ray.dir))
        root == FSqrt(Sphere_discriminant(self, ray))
    IN  << FDiv(FSub(FNeg(b), root), FMul(2 * One, a)),
           FDiv(FAdd(FNeg(b), root), FMul(2 * One, a)) >>

\* the root choice with the interval closed at t_min
accepted_root_closed(roots, t_min, t_max) ==
    IF FLt(roots[1], t_max) /\ FGe(roots[1], t_min) THEN Some(roots[1])
    ELSE IF FLt(roots[2], t_max) /\ FGe(roots[2], t_min) THEN Some(roots[2])
    ELSE None

\* let t = if t1 < t_max && t1 > t_min { t1 } else if t2 ... { t2 } else { return None }
accepted_root(roots, t_min, t_max) ==
    IF FLt(roots[1], t_max) /\ FGt(roots[1], t_min) THEN Some(roots[1])
    ELSE IF FLt(roots[2], t_max) /\ FGt(roots[2], t_min) THEN Some(roots[2])
    ELSE None

\* the record built for the accepted root t
Sphere_record(self, ray, t) ==
    LET normal == sub(at(ray, t), self.position)
    IN  HitRecord_new(at(ray, t), normal, t, FLt(dot(ray.dir, normal), 0), self.material)

Sphere_hit(self, ray, t_min, t_max) ==
    IF FLt(Sphere_discriminant(self, ray), 0) THEN None
    ELSE LET t == accepted_root(Sphere_roots(self, ray), t_min, t_max)
         IN  IF t.some THEN Some(Sphere_record(self, ray, t.val)) ELSE None

\* MaterialType::scatter, Lambertian arm
scatter_lambertian(albedo, ray, rec, raw1, raw2) ==
    LET scatter_direction == add(rec.normal, random_in_hemisphere(rec.normal, raw1, raw2))
    IN  [some |-> TRUE, attenuation |-> albedo,
         scattered |-> Ray_new(rec.position, scatter_direction),
         path |-> "lambertian", eta_sin |-> 0, draws |-> 2]

\* MaterialType::scatter, Metal arm
scatter_metal(albedo, fuzziness, ray, rec, raw1, raw2) ==
    LET reflected == reflect(unit(ray.dir), rec.normal)
        scattered == Ray_new(rec.position,
                             add(reflected,
                                 mult_float(random_in_hemisphere(rec.normal, raw1, raw2),
                                            fuzziness)))
    IN  [some |-> FGt(dot(scattered.dir, rec.normal), 0), attenuation |-> albedo,
         scattered |-> scattered, path |-> "metal", eta_sin |-> 0, draws |-> 2]

\* the Dialectric arm with the reflectance draw put before the reflection guard
scatter_dialectric_unguarded(refractive_index, ray, rec, raw1) ==
    LET attenuation == Vec3_new(One, One, One)
        etai_over_etat == IF rec.front_face THEN FDiv(One, refractive_index)
                          ELSE refractive_index
        unit_direction == unit(ray.dir)
        cos_theta == FMin(FNeg(dot(unit_direction, rec.normal)), One)
        sin_theta == FSqrt(FSub(One, FMul(cos_theta, cos_theta)))
        eta_sin == FMul(etai_over_etat, sin_theta)
        reflected == reflect(unit_direction, rec.normal)
    IN  IF FLt(random_01(raw1), schlick(cos_theta, etai_over_etat))
        THEN [some |-> TRUE, attenuation |-> attenuation,
              scattered |-> Ray_new(rec.position, reflected),
              path |-> "reflect", eta_sin |-> eta_sin, draws |-> 1]
        ELSE [some |-> TRUE, attenuation |-> attenuation,
              scattered |-> Ray_new(rec.position,
                                    refract(unit_direction, rec.normal, etai_over_etat)),
              path |-> "refract", eta_sin |-> eta_sin, draws |-> 1]

\* MaterialType::scatter, Dialectric arm; path names the return statement taken
scatter_dialectric(refractive_index, ray, rec, raw1) ==
    LET attenuation == Vec3_new(One, One, One)
        etai_over_etat == IF rec.front_face THEN FDiv(One, refractive_index)
                          ELSE refractive_index
        unit_direction == unit(ray.dir)
        cos_theta == FMin(FNeg(dot(unit_direction, rec.normal)), One)
        sin_theta == FSqrt(FSub(One, FMul(cos_theta, cos_theta)))
        eta_sin == FMul(etai_over_etat, sin_theta)
        reflected == reflect(unit_direction, rec.normal)
    IN  IF FGt(eta_sin, One)
        THEN [some |-> TRUE, attenuation |-> attenuation,
              scattered |-> Ray_new(rec.position, reflected),
              path |-> "total_internal_reflection", eta_sin |-> eta_sin, draws |-> 0]
        ELSE IF FLt(random_01(raw1), schlick(cos_theta, etai_over_etat))
        THEN [some |-> TRUE, attenuation |-> attenuation,
              scattered |-> Ray_new(rec.position, reflected),
              path |-> "reflect", eta_sin |-> eta_sin, draws |-> 1]
        ELSE [some |-> TRUE, attenuation |-> attenuation,
              scattered |-> Ray_new(rec.position,
                                    refract(unit_direction, rec.normal, etai_over_etat)),
              path |-> "refract", eta_sin |-> eta_sin, draws |-> 1]

\* MaterialType::scatter: the match over the three variants
scatter(material, ray, rec, raw1, raw2) ==
    IF material.kind = "Lambertian"
    THEN scatter_lambertian(material.albedo, ray, rec, raw1, raw2)
    ELSE IF material.kind = "Metal"
    THEN scatter_metal(material.albedo, material.fuzziness, ray, rec, raw1, raw2)
    ELSE scatter_dialectric(material.refractive_index, ray, rec, raw1)

(***************************************************************************)
(* ray_color (src/main.rs)                                                 *)
(***************************************************************************)
\* let t_min = 0.0001: one grid step
t_min == 1
t_max == PInf

Black == Vec3_new(0, 0, 0)

\* the budget test one too late
depth_exhausted_late(depth) == depth < 0

\* if depth <= 0
depth_exhausted(depth) == depth <= 0

\* a recursive call that hands its own budget on
recursion_depth_same(depth) == depth

\* ray_color(&scattered, objects, depth - 1)
recursion_depth(depth) == depth - 1

\* the record that closest starts from
sentinel ==
    HitRecord_new(Vec3_new(0, 0, 0), Vec3_new(0, 0, 0), PInf, FALSE,
                  Lambertian(Vec3_new(One, 0, One)))

\* the comparison that lets a later record of equal t replace the kept one
is_closer_or_equal(record, close) == FLe(record.t, close.t)

\* if record.t < close.t
is_closer(record, close) == FLt(record.t, close.t)

\* if hit_info.t < INFINITY
has_hit(hit_info) == FLt(hit_info.t, PInf)

\* the background gradient of the last three lines of ray_color
sky_color(ray) ==
    LET unit_vec == unit(ray.dir)
        t == FMul(One \div 2, FAdd(unit_vec.y, One))
    IN  add(mult_float(Vec3_new(One, One, One), FSub(One, t)),
            mult_float(Vec3_new(One \div 2, (7 * One) \div 10, One), t))

(***************************************************************************)
(* Camera, the output transform and the image file (src/main.rs,           *)
(* src/maths/utils.rs, src/netpbm/mod.rs)                                  *)
(***************************************************************************)
deg_to_rad(degrees) == FDiv(FMul(degrees, Pi), 180 * One)

\* f64::tan, by its Taylor polynomial of degree 7
FTan(x) ==
    LET x2 == FMul(x, x)
        x3 == FMul(x2, x)
        x5 == FMul(x3, x2)
        x7 == FMul(x5, x2)
    IN  FAdd(FAdd(x, FDiv(x3, 3 * One)),
             FAdd(FDiv(FMul(2 * One, x5), 15 * One), FDiv(FMul(17 * One, x7), 315 * One)))

clamp(x, min, max) == IF FLt(x, min) THEN min ELSE IF FGt(x, max) THEN max ELSE x

\* one candidate of the loop of random_in_unit_disk
disk_candidate(raw1, raw2) ==
    Vec3_new(random_between(-One, One, raw1), random_between(-One, One, raw2), 0)

\* if p.length_squared() >= 1.0 { continue }
disk_rejects(p) == FGe(length_squared(p), One)

Camera_new(lookfrom, lookat, vup, vertical_fov_degrees, aspect, aperture, focus_dist) ==
    LET origin == lookfrom
        lens_radius == FDiv(aperture, 2 * One)
        theta == deg_to_rad(vertical_fov_degrees)
        half_height == FTan(FDiv(theta, 2 * One))
        half_width == FMul(aspect, half_height)
        w == unit(sub(lookfrom, lookat))
        u == unit(cross(vup, w))
        v == cross(w, u)
        lower_left ==
            sub(sub(sub(origin, mult_float(u, FMul(half_width, focus_dist))),
                    mult_float(v, FMul(half_height, focus_dist))),
                mult_float(w, focus_dist))
        horizontal == mult_float(u, FMul(FMul(2 * One, half_width), focus_dist))
        vertical == mult_float(v, FMul(FMul(2 * One, half_height), focus_dist))
    IN  [origin |-> origin, lower_left |-> lower_left, vertical |-> vertical,
         horizontal |-> horizontal, u |-> u, v |-> v, w |-> w,
         lens_radius |-> lens_radius]

\* Camera::get_ray, given the point p that random_in_unit_disk returned
get_ray(self, s, t, p) ==
    LET rd == mult_float(p, self.lens_radius)
        offset == add(mult_float(self.u, rd.x), mult_float(self.v, rd.y))
    IN  Ray_new(add(self.origin, offset),
                sub(sub(add(add(self.lower_left, mult_float(self.horizontal, s)),
                            mult_float(self.vertical, t)),
                        self.origin),
                    offset))

\* x as u8: the cast saturates, and not-a-number becomes 0
as_u8(x) ==
    IF x = NaN \/ x < 0 THEN 0 ELSE IF x >= 256 * One THEN 255 ELSE x \div One

\* one channel of output_pixels: gamma, clamp, scale, truncate
output_channel(x) ==
    as_u8(FMul((2559 * One) \div 10, clamp(FSqrt(x), 0, One - 1)))

RECURSIVE output_transform(_)
output_transform(pixels) ==
    IF pixels = << >> THEN << >>
    ELSE << output_channel(Head(pixels)) >> \o output_transform(Tail(pixels))

\* the header line create_ppm formats
ppm_header(width, height) == << "P6", width, height, 255 >>

\* create_ppm: at is the call that fails, "none" when none does
create_ppm(pixels, width, height, fails_at) ==
    IF fails_at = "create"
    THEN [res |-> "Err", file |-> [exists |-> FALSE, header |-> << >>, data |-> << >>]]
    ELSE IF fails_at = "header"
    THEN [res |-> "Err", file |-> [exists |-> TRUE, header |-> << >>, data |-> << >>]]
    ELSE IF fails_at = "pixels"
    THEN [res |-> "Err",
          file |-> [exists |-> TRUE, header |-> ppm_header(width, height), data |-> << >>]]
    ELSE [res |-> "Ok",
          file |-> [exists |-> TRUE, header |-> ppm_header(width, height), data |-> pixels]]

(***************************************************************************)
(* Bounds and inputs                                                       *)
(***************************************************************************)
\* the largest recursion budget handed to ray_color
MaxDepth == 2
\* the length of the raw random stream, which repeats after that
TapeLen == 2

\* the vector (a/10, b/10, c/10)
V10(a, b, c) == Vec3_new((a * One) \div 10, (b * One) \div 10, (c * One) \div 10)

\* the hand-written scene kept in main (without its ground sphere)
SceneDemo ==
    << Sphere_new(V10(0, 0, -10), One \div 2, Lambertian(V10(7, 3, 3))),
       Sphere_new(V10(10, 0, -10), One \div 2, Metal(V10(8, 6, 2), One)),
       Sphere_new(V10(-10, 0, -10), One \div 2, Dialectric((3 * One) \div 2)),
       Sphere_new(V10(-10, 0, -10), -((45 * One) \div 100), Dialectric((3 * One) \div 2)) >>

\* a far sphere first, then two spheres at the same place
SceneTie ==
    << Sphere_new(V10(0, 0, -30), One \div 2, Lambertian(V10(4, 2, 1))),
       Sphere_new(V10(0, 0, -10), One \div 2, Metal(V10(7, 6, 5), 0)),
       Sphere_new(V10(0, 0, -10), One \div 2, Lambertian(V10(5, 5, 5))) >>

\* one glass ball around the origin
SceneGlass ==
    << Sphere_new(V10(0, 0, 0), One, Dialectric((3 * One) \div 2)) >>

Scenes == {SceneDemo, SceneTie, SceneGlass}

Rays ==
    { Ray_new(V10(0, 0, 0), V10(0, 0, -10)),
      Ray_new(V10(0, 0, 0), V10(10, 0, -10)),
      Ray_new(V10(0, 0, 0), V10(-10, 0, -10)),
      Ray_new(V10(0, 0, 0), V10(0, 10, 0)),
      Ray_new(Vec3_new(0, 0, -4999), V10(0, 0, -10)),
      Ray_new(V10(9, 0, 0), V10(0, 10, 0)),
      Ray_new(V10(5, 0, 0), V10(0, 0, -10)),
      Ray_new(V10(-10, 0, -10), V10(0, 0, -10)) }

Tapes == [1 .. TapeLen -> RawDraws]

\* the image and the samples of main, scaled down
ImageWidth == 2
ImageHeight == 2
SamplesPerPixel == 2

\* the three large spheres that make_random_scene always adds
SceneMain ==
    << Sphere_new(V10(0, 10, 0), One, Dialectric((3 * One) \div 2)),
       Sphere_new(V10(-40, 10, 0), One, Lambertian(V10(4, 2, 1))),
       Sphere_new(V10(40, 10, 0), One, Metal(V10(7, 6, 5), 0)) >>

\* the camera main builds
CameraMain ==
    Camera_new(V10(130, 20, 30), V10(0, 0, 0), V10(0, 10, 0), 20 * One,
               FDiv(ImageWidth * One, ImageHeight * One), One \div 10, 10 * One)

\* the same row, not counted from the bottom
screen_row_same(j) == j

\* (image_height - 1 - j): the screen row that output row j samples
screen_row(j) == ImageHeight - 1 - j

(***************************************************************************)
(* State                                                                   *)
(***************************************************************************)
VARIABLES
    objects,    \* the scene: a sequence of spheres
    max_depth,  \* the budget of the outermost ray_color call
    tape,       \* the raw random stream
    pos,        \* how many raw values were drawn, modulo the stream's length
    pc,         \* where ray_color is: "call", "scan", "ret", "done"
    ray,        \* ray of the innermost ray_color frame
    depth,      \* depth of the innermost ray_color frame
    stack,      \* the attenuations of the frames waiting for their recursive call
    closest,    \* local closest of the innermost frame
    idx,        \* index of the next object of the for loop
    found,      \* the records hit() returned so far in this loop
    probe,      \* the last call of Sphere::hit: its arguments and result
    scat,       \* the last call of scatter: its arguments and result
    scatters,   \* the scatter events of the outermost call so far
    ret,        \* the value returned by the frame that returned last
    via,        \* the return statement that frame left by
    result,     \* the value of the outermost call
    camera,     \* main: the camera
    mpc,        \* main: where it is; "off" when ray_color is run on its own
    i,          \* main: the column of the pixel
    j,          \* main: the row of the pixel, in output order
    s,          \* main: the samples of the pixel taken so far
    uv,         \* main: the jittered screen coordinates of the sample
    color,      \* main: the sum of the pixel's samples
    pixels,     \* main: the channel values pushed so far
    output_pixels,  \* main: the bytes handed to create_ppm
    file,       \* the image file
    io_res,     \* what create_ppm returned
    status      \* how the process ended

main_vars == << camera, mpc, i, j, s, uv, color, pixels, output_pixels, file,
               io_res, status >>

vars == << objects, max_depth, tape, pos, pc, ray, depth, stack, closest, idx,
           found, probe, scat, scatters, ret, via, result, main_vars >>

NoFile == [exists |-> FALSE, header |-> << >>, data |-> << >>]

\* closest before the frame's let
NoRecord == [done |-> FALSE]
NoProbe == [done |-> FALSE]
NoScat == [done |-> FALSE]

draw(k) == tape[((pos + k) % Len(tape)) + 1]

Init ==
    /\ objects \in Scenes
    /\ max_depth \in -1 .. MaxDepth
    /\ tape \in Tapes
    /\ ray \in Rays
    /\ pos = 0
    /\ pc = "call"
    /\ depth = max_depth
    /\ stack = << >>
    /\ closest = NoRecord
    /\ idx = 1
    /\ found = << >>
    /\ probe = NoProbe
    /\ scat = NoScat
    /\ scatters = 0
    /\ ret = Black
    /\ via = "none"
    /\ result = Black
    /\ camera = CameraMain
    /\ mpc = "off"
    /\ i = 0
    /\ j = 0
    /\ s = 0
    /\ uv = << 0, 0 >>
    /\ color = Black
    /\ pixels = << >>
    /\ output_pixels = << >>
    /\ file = NoFile
    /\ io_res = "none"
    /\ status = "running"

(***************************************************************************)
(* ray_color, one action per step                                          *)
(***************************************************************************)
\* depth <= 0: return black
RayColorExhausted ==
    /\ pc = "call"
    /\ depth_exhausted(depth)
    /\ ret' = Black
    /\ via' = "exhausted"
    /\ pc' = "ret"
    /\ UNCHANGED << objects, max_depth, tape, pos, ray, depth, stack, closest, idx,
                    found, probe, scat, scatters, result >>
    /\ UNCHANGED main_vars

\* let mut closest = HitRecord::new(...)
RayColorSentinel ==
    /\ pc = "call"
    /\ ~depth_exhausted(depth)
    /\ closest' = sentinel
    /\ idx' = 1
    /\ found' = << >>
    /\ pc' = "scan"
    /\ UNCHANGED << objects, max_depth, tape, pos, ray, depth, stack, probe, scat,
                    scatters, ret, via, result >>
    /\ UNCHANGED main_vars

\* one iteration of for object in objects
RayColorScan ==
    /\ pc = "scan"
    /\ idx <= Len(objects)
    /\ LET object == objects[idx]
           hit == Sphere_hit(object, ray, t_min, t_max)
       IN  /\ closest' = IF hit.some /\ is_closer(hit.val, closest) THEN hit.val
                         ELSE closest
           /\ found' = IF hit.some THEN Append(found, hit.val) ELSE found
           /\ probe' = [done |-> TRUE, sphere |-> object, ray |-> ray, hit |-> hit]
    /\ idx' = idx + 1
    /\ UNCHANGED << objects, max_depth, tape, pos, pc, ray, depth, stack, scat,
                    scatters, ret, via, result >>
    /\ UNCHANGED main_vars

\* no hit: the background colour
RayColorSky ==
    /\ pc = "scan"
    /\ idx > Len(objects)
    /\ ~has_hit(closest)
    /\ ret' = sky_color(ray)
    /\ via' = "sky"
    /\ pc' = "ret"
    /\ UNCHANGED << objects, max_depth, tape, pos, ray, depth, stack, closest, idx,
                    found, probe, scat, scatters, result >>
    /\ UNCHANGED main_vars

\* a hit: scatter, then recurse with depth - 1 or return black
RayColorScatter ==
    /\ pc = "scan"
    /\ idx > Len(objects)
    /\ has_hit(closest)
    /\ LET scatter_res == scatter(closest.material, ray, closest, draw(0), draw(1))
       IN  /\ scat' = [done |-> TRUE, material |-> closest.material, ray |-> ray,
                       rec |-> closest, res |-> scatter_res]
           /\ pos' = (pos + scatter_res.draws) % Len(tape)
           /\ IF scatter_res.some
              THEN /\ stack' = Append(stack, scatter_res.attenuation)
                   /\ ray' = scatter_res.scattered
                   /\ depth' = recursion_depth(depth)
                   /\ scatters' = scatters + 1
                   /\ pc' = "call"
                   /\ UNCHANGED << ret, via >>
              ELSE /\ ret' = Black
                   /\ via' = "absorbed"
                   /\ pc' = "ret"
                   /\ UNCHANGED << stack, ray, depth, scatters >>
    /\ UNCHANGED << objects, max_depth, tape, closest, idx, found, probe, result >>
    /\ UNCHANGED main_vars

\* the recursive call returned: attenuation * ray_color(...)
RayColorReturn ==
    /\ pc = "ret"
    /\ stack # << >>
    /\ ret' = mult(stack[Len(stack)], ret)
    /\ via' = "recursed"
    /\ stack' = SubSeq(stack, 1, Len(stack) - 1)
    /\ depth' = depth + 1
    /\ UNCHANGED << objects, max_depth, tape, pos, pc, ray, closest, idx, found,
                    probe, scat, scatters, result >>
    /\ UNCHANGED main_vars

\* the outermost call returned
RayColorDone ==
    /\ pc = "ret"
    /\ stack = << >>
    /\ result' = ret
    /\ pc' = "done"
    /\ UNCHANGED << objects, max_depth, tape, pos, ray, depth, stack, closest, idx,
                    found, probe, scat, scatters, ret, via >>
    /\ UNCHANGED main_vars

Next ==
    \/ RayColorExhausted
    \/ RayColorSentinel
    \/ RayColorScan
    \/ RayColorSky
    \/ RayColorScatter
    \/ RayColorReturn
    \/ RayColorDone

Spec == Init /\ [][Next]_vars

(***************************************************************************)
(* main (src/main.rs): the render loop, the output transform, the file     *)
(***************************************************************************)
NoRay == Ray_new(Zero3, Zero3)

MainInit ==
    /\ objects = SceneMain
    /\ max_depth = MaxDepth
    /\ tape \in Tapes
    /\ ray = NoRay
    /\ pos = 0
    /\ pc = "idle"
    /\ depth = max_depth
    /\ stack = << >>
    /\ closest = NoRecord
    /\ idx = 1
    /\ found = << >>
    /\ probe = NoProbe
    /\ scat = NoScat
    /\ scatters = 0
    /\ ret = Black
    /\ via = "none"
    /\ result = Black
    /\ camera = CameraMain
    /\ mpc = "sample"
    /\ i = 0
    /\ j = 0
    /\ s = 0
    /\ uv = << 0, 0 >>
    /\ color = Black
    /\ pixels = << >>
    /\ output_pixels = << >>
    /\ file = NoFile
    /\ io_res = "none"
    /\ status = "running"

\* let u = (i + random_01()) / width; let v = ((height - 1 - j) + random_01()) / height
MainJitter ==
    /\ mpc = "sample"
    /\ s < SamplesPerPixel
    /\ uv' = << FDiv(FAdd(i * One, random_01(draw(0))), ImageWidth * One),
                FDiv(FAdd(screen_row(j) * One, random_01(draw(1))),
                     ImageHeight * One) >>
    /\ pos' = (pos + 2) % Len(tape)
    /\ mpc' = "lens"
    /\ UNCHANGED << objects, max_depth, tape, pc, ray, depth, stack, closest, idx,
                    found, probe, scat, scatters, ret, via, result >>
    /\ UNCHANGED << camera, i, j, s, color, pixels, output_pixels, file, io_res, status >>

\* camera.get_ray(u, v): one turn of the loop of random_in_unit_disk, and with
\* a point inside the disk the ray and the call ray_color(&ray, &objects, max_depth)
MainLens ==
    /\ mpc = "lens"
    /\ pos' = (pos + 2) % Len(tape)
    /\ LET p == disk_candidate(draw(0), draw(1))
       IN  IF disk_rejects(p)
           THEN UNCHANGED << pc, ray, depth, stack, scatters, mpc >>
           ELSE /\ ray' = get_ray(camera, uv[1], uv[2], p)
                /\ depth' = max_depth
                /\ stack' = << >>
                /\ scatters' = 0
                /\ pc' = "call"
                /\ mpc' = "wait"
    /\ UNCHANGED << objects, max_depth, tape, closest, idx, found, probe, scat, ret,
                    via, result >>
    /\ UNCHANGED << camera, i, j, s, uv, color, pixels, output_pixels, file, io_res,
                    status >>

\* color += ray_color(...)
MainAccumulate ==
    /\ mpc = "wait"
    /\ pc = "done"
    /\ color' = add(color, result)
    /\ s' = s + 1
    /\ pc' = "idle"
    /\ mpc' = "sample"
    /\ UNCHANGED << objects, max_depth, tape, pos, ray, depth, stack, closest, idx,
                    found, probe, scat, scatters, ret, via, result >>
    /\ UNCHANGED << camera, i, j, uv, pixels, output_pixels, file, io_res, status >>

\* color = color / samples_per_pixel; the three pushes; the next pixel
MainPixel ==
    /\ mpc = "sample"
    /\ s = SamplesPerPixel
    /\ LET mean == div(color, SamplesPerPixel * One)
       IN  pixels' = pixels \o << mean.x, mean.y, mean.z >>
    /\ color' = Black
    /\ s' = 0
    /\ i' = IF i + 1 < ImageWidth THEN i + 1 ELSE 0
    /\ j' = IF i + 1 < ImageWidth THEN j ELSE j + 1
    /\ mpc' = IF i + 1 < ImageWidth \/ j + 1 < ImageHeight THEN "sample" ELSE "encode"
    /\ UNCHANGED << objects, max_depth, tape, pos, pc, ray, depth, stack, closest, idx,
                    found, probe, scat, scatters, ret, via, result >>
    /\ UNCHANGED << camera, uv, output_pixels, file, io_res, status >>

\* let output_pixels: Vec<u8> = pixels.iter()...collect()
MainEncode ==
    /\ mpc = "encode"
    /\ output_pixels' = output_transform(pixels)
    /\ mpc' = "write"
    /\ UNCHANGED << objects, max_depth, tape, pos, pc, ray, depth, stack, closest, idx,
                    found, probe, scat, scatters, ret, via, result >>
    /\ UNCHANGED << camera, i, j, s, uv, color, pixels, file, io_res, status >>

\* where the file system can fail create_ppm
WriteFailures == {"none", "create", "header", "pixels"}

\* create_ppm("result.ppm", &output_pixels, image_width, image_height)
MainWrite ==
    /\ mpc = "write"
    /\ \E fails_at \in WriteFailures :
           LET written == create_ppm(output_pixels, ImageWidth, ImageHeight, fails_at)
           IN  /\ file' = written.file
               /\ io_res' = written.res
    /\ mpc' = "exit"
    /\ UNCHANGED << objects, max_depth, tape, pos, pc, ray, depth, stack, closest, idx,
                    found, probe, scat, scatters, ret, via, result >>
    /\ UNCHANGED << camera, i, j, s, uv, color, pixels, output_pixels, status >>

\* let _res = ...: the result is bound and dropped, and main returns
main_exit_status(res) == "exit_ok"

MainExit ==
    /\ mpc = "exit"
    /\ status' = main_exit_status(io_res)
    /\ mpc' = "exited"
    /\ UNCHANGED << objects, max_depth, tape, pos, pc, ray, depth, stack, closest, idx,
                    found, probe, scat, scatters, ret, via, result >>
    /\ UNCHANGED << camera, i, j, s, uv, color, pixels, output_pixels, file, io_res >>

MainNext ==
    \/ Next
    \/ MainJitter
    \/ MainLens
    \/ MainAccumulate
    \/ MainPixel
    \/ MainEncode
    \/ MainWrite
    \/ MainExit

MainSpec == MainInit /\ [][MainNext]_vars

(***************************************************************************)
(* Properties                                                              *)
(***************************************************************************)
ScanOver == pc = "scan" /\ idx > Len(objects)

\* C1: ray_color returns black whenever depth <= 0; so with depth = 1 a ray
\* whose nearest hit scatters returns black, and only a ray that hit nothing
\* returns a colour other than black.
C1_BlackAtDepthFloor ==
    /\ (pc = "ret" /\ depth <= 0) => ret = Black
    /\ (pc = "done" /\ max_depth <= 0) => result = Black
    /\ (pc = "done" /\ max_depth = 1 /\ scatters >= 1) => result = Black
    /\ (pc = "done" /\ max_depth = 1 /\ result # Black) => found = << >>

C1_Witness ==
    /\ pc = "done"
    /\ max_depth = 1
    /\ scatters = 1
    /\ scat.done /\ scat.res.attenuation # Black
    /\ result = Black

\* a number that every step of ray_color lowers: the steps the call can
\* still take, counted from the budget left, the objects left to scan and the
\* frames left to return
Measure ==
    LET n == Len(objects)
        up == (IF max_depth > 0 THEN max_depth ELSE 0) + 2
        base == up + (IF depth > 0 THEN depth ELSE 0) * (n + 2)
    IN  IF pc = "call" THEN base + n + 2
        ELSE IF pc = "scan" THEN base + (n + 1 - idx) + 1
        ELSE IF pc = "ret" THEN Len(stack) + 1
        ELSE 0

\* C2: every call ray_color(ray, scene, max_depth) with max_depth >= 0 ends:
\* each recursive call passes depth - 1, so every step lowers Measure, which
\* never goes below zero; the chain has at most max_depth scatter events, the
\* nesting of frames never exceeds max_depth + 1, and a frame that finds the
\* budget spent returns black.
C2_BoundedRecursion ==
    /\ [](max_depth >= 0 =>
            /\ scatters <= max_depth
            /\ (pc # "done" => Len(stack) + 1 <= max_depth + 1)
            /\ ((pc = "ret" /\ depth <= 0) => (ret = Black /\ via = "exhausted")))
    /\ [](Measure >= 0 /\ (Measure = 0 <=> pc = "done"))
    /\ [][Measure' < Measure]_vars

C2_Witness ==
    /\ pc = "ret"
    /\ max_depth = MaxDepth
    /\ depth = 0
    /\ scatters = max_depth
    /\ Len(stack) + 1 = max_depth + 1

\* C3: the normal of every record Sphere::hit returns, for a sphere of
\* non-zero radius of either sign, opposes the ray: dot(ray.dir, normal) <= 0;
\* the record's normal is the unit vector of the raw normal, negated inside
\* HitRecord::new exactly when front_face is false.
C3_NormalOpposesRay ==
    (probe.done /\ probe.hit.some /\ probe.sphere.radius # 0) =>
        LET rec == probe.hit.val
            raw == sub(rec.position, probe.sphere.position)
        IN  /\ FLe(dot(probe.ray.dir, rec.normal), 0)
            /\ rec.normal = IF rec.front_face THEN unit(raw) ELSE unit(neg(raw))

C3_Witness ==
    /\ probe.done
    /\ probe.hit.some
    /\ probe.sphere.radius < 0
    /\ ~probe.hit.val.front_face
    /\ FLt(dot(probe.ray.dir, probe.hit.val.normal), 0)

\* the index of the record the scan must keep: the first of smallest t
FirstNearest(recs) ==
    CHOOSE k \in 1 .. Len(recs) :
        /\ \A m \in 1 .. Len(recs) : recs[k].t <= recs[m].t
        /\ \A m \in 1 .. (k - 1) : recs[m].t > recs[k].t

\* C4: when the scan is over, closest is the returned record of smallest t,
\* the first in scene order among equals; the sky branch is taken exactly when
\* no object returned a record.
C4_NearestFirstWins ==
    /\ ScanOver =>
           /\ (found # << >> => closest = found[FirstNearest(found)])
           /\ (found = << >> => closest = sentinel)
    /\ (pc = "ret" /\ via = "sky") => found = << >>
    /\ (pc = "ret" /\ via = "absorbed") => found # << >>
    /\ (pc = "call" /\ stack # << >>) => found # << >>
    /\ (pc = "ret" /\ via \in {"sky", "absorbed"}) => idx > Len(objects)

C4_Witness ==
    /\ ScanOver
    /\ Len(found) = 3
    /\ found[1].t > found[2].t
    /\ found[2].t = found[3].t
    /\ found[2].material # found[3].material
    /\ closest = found[2]

InsideInterval(t, lo, hi) == FGt(t, lo) /\ FLt(t, hi)

\* C5: with a discriminant that is not negative Sphere::hit returns the root
\* t1 when t_min < t1 < t_max, else the root t2 when t_min < t2 < t_max, else
\* nothing; with a negative discriminant it returns nothing.  A returned t is
\* strictly inside (t_min, t_max).
C5_RootChoice ==
    probe.done =>
        LET d == Sphere_discriminant(probe.sphere, probe.ray)
            roots == Sphere_roots(probe.sphere, probe.ray)
            hit == probe.hit
        IN  /\ FLt(d, 0) => ~hit.some
            /\ (FGe(d, 0) /\ InsideInterval(roots[1], t_min, t_max)) =>
                   (hit.some /\ hit.val.t = roots[1])
            /\ (FGe(d, 0) /\ ~InsideInterval(roots[1], t_min, t_max)
                          /\ InsideInterval(roots[2], t_min, t_max)) =>
                   (hit.some /\ hit.val.t = roots[2])
            /\ (FGe(d, 0) /\ ~InsideInterval(roots[1], t_min, t_max)
                          /\ ~InsideInterval(roots[2], t_min, t_max)) => ~hit.some
            /\ hit.some => (hit.val.t > t_min /\ hit.val.t < t_max)

C5_Witness ==
    /\ probe.done
    /\ Sphere_roots(probe.sphere, probe.ray)[1] = t_min
    /\ probe.hit.some
    /\ probe.hit.val.t = Sphere_roots(probe.sphere, probe.ray)[2]

\* whether the ray starts outside the ball of the sphere
StartsOutside(sphere, r) ==
    FGt(length_squared(sub(r.origin, sphere.position)), FMul(sphere.radius, sphere.radius))

\* C6: front_face is taken from the outward normal (hit_point - center) / radius,
\* so that a ray reaching a sphere of negative radius from outside gets
\* front_face = false.
C6_FrontFaceFollowsRadius ==
    (probe.done /\ probe.hit.some) =>
        LET rec == probe.hit.val
            outward_normal == div(sub(rec.position, probe.sphere.position),
                                  probe.sphere.radius)
        IN  /\ rec.front_face = FLt(dot(probe.ray.dir, outward_normal), 0)
            /\ (probe.sphere.radius < 0 /\ StartsOutside(probe.sphere, probe.ray))
                   => ~rec.front_face

\* C7: in the Dialectric arm refract() is reached only with
\* eta * sin_theta <= 1 established; with eta * sin_theta > 1 the scattered ray
\* is the reflection and no random value is drawn; every outcome scatters with
\* attenuation (1, 1, 1).
C7_ReflectionGuardFirst ==
    (scat.done /\ scat.material.kind = "Dialectric") =>
        /\ scat.res.some
        /\ scat.res.attenuation = Vec3_new(One, One, One)
        /\ scat.res.path \in {"total_internal_reflection", "reflect", "refract"}
        /\ scat.res.path = "refract" => FLe(scat.res.eta_sin, One)
        /\ FGt(scat.res.eta_sin, One) =>
               /\ scat.res.path = "total_internal_reflection"
               /\ scat.res.draws = 0
               /\ scat.res.scattered =
                      Ray_new(scat.rec.position, reflect(unit(scat.ray.dir), scat.rec.normal))
        /\ scat.res.path = "refract" =>
               scat.res.scattered.dir =
                   refract(unit(scat.ray.dir), scat.rec.normal,
                           IF scat.rec.front_face
                           THEN FDiv(One, scat.material.refractive_index)
                           ELSE scat.material.refractive_index)

C7_Witness ==
    /\ scat.done
    /\ scat.material.kind = "Dialectric"
    /\ scat.res.path = "total_internal_reflection"
    /\ FGt(scat.res.eta_sin, One)
    /\ pos = 0

\* C10: unit() is never applied to a vector of length zero and no record with a
\* not-a-number normal is ever built: the record a frame holds comes from a
\* successful intersection test.
C10_NoDegenerateRecord ==
    pc = "scan" =>
        /\ ~HasNaN(closest.normal)
        /\ \E k \in 1 .. Len(found) : closest = found[k]

\* C9: a failure of create_ppm (creating the file, writing the header or
\* writing the pixels) ends the run as a fatal error: the program never ends
\* normally after create_ppm returned an error.
C9_WriteFailureIsFatal ==
    (mpc = "exited" /\ io_res = "Err") => status # "exit_ok"

\* whether the coordinate lies in the band of the cell, of count cells, up to
\* the rounding of the division
InCell(coord, cell, count) ==
    /\ cell * One - count < coord * count
    /\ coord * count < (cell + 1) * One

\* the pixels emitted so far are those before (i, j) in row-major order
EmittedRowMajor == Len(pixels) = 3 * (j * ImageWidth + i)

\* C11: pixels are emitted in row-major order, output row j sampling screen
\* row image_height - 1 - j; a pixel is averaged and emitted only when exactly
\* samples_per_pixel results of ray_color were added to its sum, never before;
\* and the encoder receives exactly 3 * width * height channel values.
C11_RenderLoopOrder ==
    /\ [](mpc \in {"sample", "lens", "wait"} =>
             /\ EmittedRowMajor
             /\ i \in 0 .. ImageWidth - 1
             /\ j \in 0 .. ImageHeight - 1
             /\ s \in 0 .. SamplesPerPixel
             /\ s = 0 => color = Black)
    /\ [](mpc \in {"lens", "wait"} =>
             /\ s < SamplesPerPixel
             /\ InCell(uv[1], i, ImageWidth)
             /\ InCell(uv[2], ImageHeight - 1 - j, ImageHeight))
    /\ [][s' = s + 1 =>
             /\ mpc = "wait" /\ pc = "done"
             /\ color' = add(color, result)
             /\ i' = i /\ j' = j /\ pixels' = pixels]_vars
    /\ [][color' # color => (s' = s + 1 \/ pixels' # pixels)]_vars
    /\ [][pixels' # pixels =>
             /\ mpc = "sample"
             /\ s = SamplesPerPixel /\ s' = 0
             /\ color' = Black
             /\ pixels' = pixels \o << div(color, SamplesPerPixel * One).x,
                                       div(color, SamplesPerPixel * One).y,
                                       div(color, SamplesPerPixel * One).z >>
             /\ \/ i' = i + 1 /\ j' = j
                \/ i = ImageWidth - 1 /\ i' = 0 /\ j' = j + 1]_vars
    /\ [](mpc \in {"encode", "write", "exit", "exited"} =>
             Len(pixels) = 3 * ImageWidth * ImageHeight)
    /\ [](mpc \in {"write", "exit", "exited"} =>
             /\ Len(output_pixels) = 3 * ImageWidth * ImageHeight
             /\ \A k \in 1 .. Len(pixels) : output_pixels[k] = output_channel(pixels[k]))
    /\ [](io_res = "Ok" => file.data = output_pixels)

C11_Witness ==
    /\ mpc = "exited"
    /\ io_res = "Ok"
    /\ Len(file.data) = 3 * ImageWidth * ImageHeight
    /\ Len(pixels) = 3 * ImageWidth * ImageHeight
    /\ \E k \in 1 .. Len(pixels) : pixels[k] # pixels[1]

====
